---- MODULE Spec2Model ----
(***************************************************************************)
(* A model of the Lexer repository: regex -> prenex (Parser.py), prenex -> *)
(* AST (AST.py), AST -> NFA (NFA.py), NFA -> DFA (DFA.py) and the          *)
(* longest-match scanner (Lex.py).                                         *)
(*                                                                         *)
(* Python strings are sequences of one-character strings; Python indices   *)
(* are kept 0-based in the state (s[i] of the source is s[i + 1] here).    *)
(***************************************************************************)
EXTENDS Integers, Sequences, FiniteSets, TLC

VARIABLES
    pc,               \* position of the modelled run
    curr_state_idx,   \* NFA.py module global: next free NFA state id
    visited,          \* NFA.py module global: visited set of the closure DFS
    epsilonClosures,  \* the one dict every NFA shares (mutable default argument)
    configurations,   \* Lexer.configurations: ordered (token, regex) pairs
    dfas,             \* Lexer.dfas: ordered (token, DFA) pairs
    counter,          \* Lexer.__init__: the offset of the next DFA's state ids
    word,             \* argument of Lexer.lex / DFA.accepts
    start_idx,        \* Lexer.lex: cursor
    output,           \* Lexer.lex: tokens emitted so far
    ret,              \* value returned by the modelled call
    regex,            \* argument of Parser.toPrenex
    prenex,           \* prenex string under construction / argument of fromPrenex
    nfa,              \* NFA returned by NFA.fromPrenex
    dfa,              \* DFA returned by DFA.fromNFA
    tree,             \* AST(prenex) after ast.fromPrenex()
    accepted,         \* value returned by DFA.accepts / NFA.accepts
    expr,             \* the expression a prenex string is written from
    prenex2           \* argument of a second call of NFA.fromPrenex

vars == <<pc, curr_state_idx, visited, epsilonClosures, configurations, dfas,
          counter, word, start_idx, output, ret, regex, prenex, nfa, dfa, tree,
          accepted, expr, prenex2>>

----------------------------------------------------------------------------
(* Python built-ins used by the source *)

SetMin(S) == CHOOSE x \in S : \A y \in S : x <= y

SetMax(S) == CHOOSE x \in S : \A y \in S : x >= y

\* the characters with code points 40..122, in code-point order (code 96, the
\* grave accent, is spelled out: it cannot be written in a string here)
AsciiTable ==
    << "(", ")", "*", "+", ",", "-", ".", "/",
       "0", "1", "2", "3", "4", "5", "6", "7", "8", "9",
       ":", ";", "<", "=", ">", "?", "@",
       "A", "B", "C", "D", "E", "F", "G", "H", "I", "J", "K", "L", "M",
       "N", "O", "P", "Q", "R", "S", "T", "U", "V", "W", "X", "Y", "Z",
       "[", "\\", "]", "^", "_", "grave",
       "a", "b", "c", "d", "e", "f", "g", "h", "i", "j", "k", "l", "m",
       "n", "o", "p", "q", "r", "s", "t", "u", "v", "w", "x", "y", "z" >>

\* ord(c)
ord(c) ==
    CASE c = "\t" -> 9
      [] c = "\n" -> 10
      [] c = "\r" -> 13
      [] c = " "  -> 32
      [] c = "'"  -> 39
      [] c = "ε"  -> 949
      [] OTHER    -> 39 + (CHOOSE i \in 1..Len(AsciiTable) : AsciiTable[i] = c)

\* chr(n), for 40 <= n <= 122
chr(n) == AsciiTable[n - 39]

\* str(n) of a non-negative int: its decimal digits
RECURSIVE str(_)
str(n) ==
    LET d == chr(48 + (n % 10))
    IN IF n < 10 THEN <<d>> ELSE str(n \div 10) \o <<d>>

\* int(s) of a non-empty digit string
RECURSIVE int(_)
int(s) ==
    LET d == ord(s[Len(s)]) - 48
    IN IF Len(s) = 1 THEN d ELSE 10 * int(SubSeq(s, 1, Len(s) - 1)) + d

\* s.find(sub): 0-based index of the first occurrence, -1 if none
find(s, sub) ==
    LET hits == {i \in 0..(Len(s) - Len(sub)) : SubSeq(s, i + 1, i + Len(sub)) = sub}
    IN IF hits = {} THEN -1 ELSE SetMin(hits)

\* s.rfind(sub): 0-based index of the last occurrence, -1 if none
rfind(s, sub) ==
    LET hits == {i \in 0..(Len(s) - Len(sub)) : SubSeq(s, i + 1, i + Len(sub)) = sub}
    IN IF hits = {} THEN -1 ELSE SetMax(hits)

\* sub in s
contains(s, sub) == find(s, sub) # -1

\* s.count(c)
count(s, c) == Cardinality({i \in 1..Len(s) : s[i] = c})

\* s.replace(old, new): leftmost, non-overlapping occurrences
RECURSIVE replace(_, _, _)
replace(s, old, new) ==
    LET i == find(s, old)
    IN IF i = -1 THEN s
       ELSE SubSeq(s, 1, i) \o new
            \o replace(SubSeq(s, i + Len(old) + 1, Len(s)), old, new)

\* s < t for strings: lexicographic by code point
RECURSIVE strLess(_, _)
strLess(s, t) ==
    IF t = <<>> THEN FALSE
    ELSE IF s = <<>> THEN TRUE
    ELSE IF s[1] # t[1] THEN ord(s[1]) < ord(t[1])
    ELSE strLess(Tail(s), Tail(t))

\* sorted(S) for a set of ints: the k-th item has k - 1 smaller ones
sortedInts(S) ==
    [k \in 1..Cardinality(S) |->
        CHOOSE x \in S : Cardinality({y \in S : y < x}) = k - 1]

\* sorted(S) for a set of strings
sortedStrs(S) ==
    [k \in 1..Cardinality(S) |->
        CHOOSE x \in S : Cardinality({y \in S : strLess(y, x)}) = k - 1]

\* the concatenation of a list of lists
RECURSIVE flatten(_)
flatten(ss) ==
    IF ss = <<>> THEN <<>>
    ELSE IF Len(ss) = 1 THEN ss[1]
    ELSE LET h == Len(ss) \div 2
         IN flatten(SubSeq(ss, 1, h)) \o flatten(SubSeq(ss, h + 1, Len(ss)))

\* reversed(s)
reversed(s) == [i \in 1..Len(s) |-> s[Len(s) + 1 - i]]

\* x in s, for a list s
inList(x, s) == \E i \in 1..Len(s) : s[i] = x

----------------------------------------------------------------------------
(* Regex.py (imported by Parser.py, not among the source files): the two    *)
(* token classes; an Operator carries the precedence rank the prenex        *)
(* compiler compares.                                                       *)

Character(c) == [cls |-> "Character", chr |-> c]

priority(op) ==
    CASE op \in {"*", "+", "?"} -> 3
      [] op = "."               -> 2
      [] op = "|"               -> 1
      [] OTHER                  -> 0

Operator(o) == [cls |-> "Operator", op |-> o, priority |-> priority(o)]

STAR    == Operator("*")
PLUS    == Operator("+")
MAYBE   == Operator("?")
UNION_   == Operator("|")
CONCAT  == Operator(".")
L_BRACK == Operator("(")
R_BRACK == Operator(")")

isCharacter(x) == x.cls = "Character"

isOperator(x) == x.cls = "Operator"

----------------------------------------------------------------------------
(* Parser.py *)

\* the elif chain of addConcatOp: is CONCAT appended after a when b follows
concatBetween(a, b) ==
    \/ isCharacter(a) /\ isCharacter(b)
    \/ isCharacter(a) /\ b = L_BRACK
    \/ a = R_BRACK /\ isCharacter(b)
    \/ a = R_BRACK /\ b = L_BRACK
    \/ a = STAR /\ isCharacter(b)
    \/ a = PLUS /\ isCharacter(b)
    \/ a = MAYBE /\ isCharacter(b)
    \/ a = STAR /\ b = L_BRACK
    \/ a = PLUS /\ b = L_BRACK
    \/ a = MAYBE /\ b = L_BRACK

addConcatOp(rlist) ==
    IF Len(rlist) = 1 THEN rlist
    ELSE flatten([i \in 1..(Len(rlist) - 1) |->
                    IF concatBetween(rlist[i], rlist[i + 1])
                    THEN <<rlist[i], CONCAT>> ELSE <<rlist[i]>>])
         \o <<rlist[Len(rlist)]>>

\* the `[x-y]` branch: ( x | x+1 | ... | y )
expandRange(first, last) ==
    <<L_BRACK>>
    \o flatten([k \in 1..(IF ord(last) > ord(first) THEN ord(last) - ord(first) ELSE 0) |->
                  <<Character(<<chr(ord(first) + k - 1)>>), UNION_>>])
    \o <<Character(<<last>>), R_BRACK>>

\* the while loop of preprocess; i is the 0-based index into regex
RECURSIVE preprocessLoop(_, _, _)
preprocessLoop(re, i, rlist) ==
    IF i >= Len(re) THEN rlist
    ELSE LET c == re[i + 1] IN
         IF c = "'" THEN
            LET q == re[i + 2]
                item == IF q \in {"\n", "\t", "\r", " "}
                        THEN Character(<<"'", q, "'">>)
                        ELSE Character(<<q>>)
            IN preprocessLoop(re, i + 3, Append(rlist, item))
         ELSE IF c = "(" THEN preprocessLoop(re, i + 1, Append(rlist, L_BRACK))
         ELSE IF c = ")" THEN preprocessLoop(re, i + 1, Append(rlist, R_BRACK))
         ELSE IF c = "*" THEN preprocessLoop(re, i + 1, Append(rlist, STAR))
         ELSE IF c = "+" THEN preprocessLoop(re, i + 1, Append(rlist, PLUS))
         ELSE IF c = "?" THEN preprocessLoop(re, i + 1, Append(rlist, MAYBE))
         ELSE IF c = "|" THEN preprocessLoop(re, i + 1, Append(rlist, UNION_))
         ELSE IF c = "." THEN preprocessLoop(re, i + 1, Append(rlist, CONCAT))
         ELSE IF c = "[" THEN
            preprocessLoop(re, i + 5, rlist \o expandRange(re[i + 2], re[i + 4]))
         ELSE preprocessLoop(re, i + 1, Append(rlist, Character(<<c>>)))

preprocess(re) ==
    addConcatOp(preprocessLoop(replace(re, <<"e", "p", "s">>, <<"ε">>), 0, <<>>))

\* the value standing for a raised exception (IndexError, StopIteration, TypeError)
Raised == <<"raise">>

\* `while regex[i].priority <= stack[-1].priority: out.append(stack.pop())` when
\* orEqual, `<` otherwise; stack[-1] of an empty stack raises IndexError
RECURSIVE popWhile(_, _, _)
popWhile(item, st, orEqual) ==
    IF st.raised THEN st
    ELSE IF st.stack = <<>> THEN [st EXCEPT !.raised = TRUE]
    ELSE LET top == st.stack[Len(st.stack)]
             go  == IF orEqual THEN item.priority <= top.priority
                               ELSE item.priority < top.priority
         IN IF go
            THEN popWhile(item, [st EXCEPT !.out = Append(@, top),
                                           !.stack = SubSeq(@, 1, Len(@) - 1)], orEqual)
            ELSE st

\* `while stack[-1] != L_BRACK: out.append(stack.pop())` and the `stack.pop()` after it
RECURSIVE popToBracket(_)
popToBracket(st) ==
    IF st.raised THEN st
    ELSE IF st.stack = <<>> THEN [st EXCEPT !.raised = TRUE]
    ELSE LET top == st.stack[Len(st.stack)]
             rest == SubSeq(st.stack, 1, Len(st.stack) - 1)
         IN IF top # L_BRACK
            THEN popToBracket([st EXCEPT !.out = Append(@, top), !.stack = rest])
            ELSE [st EXCEPT !.stack = rest]

\* the for loop of toPrenexHelper over regex[i], i 0-based
RECURSIVE toPrenexLoop(_, _, _)
toPrenexLoop(re, i, st) ==
    IF i >= Len(re) \/ st.raised THEN st
    ELSE LET x == re[i + 1] IN
         IF isCharacter(x)
         THEN toPrenexLoop(re, i + 1, [st EXCEPT !.out = Append(@, x)])
         ELSE IF x = L_BRACK
         THEN toPrenexLoop(re, i + 1, [st EXCEPT !.stack = Append(@, x)])
         ELSE IF x = R_BRACK
         THEN toPrenexLoop(re, i + 1, popToBracket(st))
         ELSE LET popped == popWhile(x, st, x = STAR)
              IN toPrenexLoop(re, i + 1,
                              IF popped.raised THEN popped
                              ELSE [popped EXCEPT !.stack = Append(@, x)])

CONCATkw == <<"C", "O", "N", "C", "A", "T">>
UNIONkw  == <<"U", "N", "I", "O", "N">>
STARkw   == <<"S", "T", "A", "R">>
PLUSkw   == <<"P", "L", "U", "S">>
MAYBEkw  == <<"M", "A", "Y", "B", "E">>
EPS      == <<"e", "p", "s">>
VOID     == <<"v", "o", "i", "d">>

\* what one item of `out` adds to `prefix`
prefixItem(x) ==
    IF isOperator(x)
    THEN CASE x.op = "." -> CONCATkw \o <<" ">>
           [] x.op = "|" -> UNIONkw \o <<" ">>
           [] x.op = "*" -> STARkw \o <<" ">>
           [] x.op = "+" -> PLUSkw \o <<" ">>
           [] x.op = "?" -> MAYBEkw \o <<" ">>
           [] OTHER      -> <<>>
    ELSE x.chr \o <<" ">>

toPrenexHelper(re) ==
    LET st == toPrenexLoop(re, 0, [out |-> <<>>, stack |-> <<>>, raised |-> FALSE])
        out == st.out
        prefix0 == flatten([k \in 1..Len(out) |-> prefixItem(out[Len(out) + 1 - k])])
        prefix1 == replace(prefix0, <<" ", "\n", " ">>, <<"\n">>)
        prefix2 == replace(prefix1, <<" ", "\r", " ">>, <<"\r">>)
        prefix3 == replace(prefix2, <<" ", "\t", " ">>, <<"\t">>)
        cut == IF prefix3 = <<>> THEN <<>> ELSE SubSeq(prefix3, 1, Len(prefix3) - 1)
    IN \* `out += stack.pop()` on a non-empty stack adds an Operator to a list
       IF st.raised \/ st.stack # <<>> THEN Raised
       ELSE replace(cut, <<"ε">>, EPS)

toPrenex(re) ==
    LET rlist == reversed(preprocess(re))
        infix_list == [i \in 1..Len(rlist) |->
                         IF rlist[i] = L_BRACK THEN R_BRACK
                         ELSE IF rlist[i] = R_BRACK THEN L_BRACK
                         ELSE rlist[i]]
    IN toPrenexHelper(<<L_BRACK>> \o infix_list \o <<R_BRACK>>)

----------------------------------------------------------------------------
(* AST.py *)

\* s.split(sep) and the first loop of customSplit: the pieces of s between the
\* positions in `at` (1-based, each holding a separator)
pieces(s, at) ==
    LET cuts == <<0>> \o sortedInts(at) \o <<Len(s) + 1>>
    IN [k \in 1..(Len(cuts) - 1) |-> SubSeq(s, cuts[k] + 1, cuts[k + 1] - 1)]

\* in_quotes when the character at 1-based position i is tested: the quotes
\* before it toggled it, starting from False
in_quotes(s, i) == Cardinality({j \in 1..(i - 1) : s[j] = "'"}) % 2 = 1

customSplit(p) ==
    LET tokens == pieces(p, {i \in 1..Len(p) : p[i] = " " /\ ~in_quotes(p, i)})
    IN [k \in 1..Len(tokens) |->
          LET token == tokens[k]
          IN IF Len(token) = 3 /\ token[1] = "'" /\ token[3] = "'"
             THEN <<token[2]>> ELSE token]

\* createNode: the number of children a token expects
num_children(token) ==
    IF token \in {STARkw, PLUSkw, MAYBEkw} THEN 1
    ELSE IF token \in {UNIONkw, CONCATkw} THEN 2
    ELSE 0

Node(token, children) ==
    [token |-> token, num_children |-> num_children(token), children |-> children]

\* AST.fromPrenex: `pos` tokens of tokens_list are consumed before the call;
\* next() on the exhausted iterator raises StopIteration
RECURSIVE AST_fromPrenex(_, _)
AST_fromPrenex(tokens_list, pos) ==
    IF pos >= Len(tokens_list)
    THEN [raised |-> TRUE, node |-> Node(<<>>, <<>>), pos |-> pos]
    ELSE LET token == tokens_list[pos + 1]
             n == num_children(token)
         IN IF n = 0
            THEN [raised |-> FALSE, node |-> Node(token, <<>>), pos |-> pos + 1]
            ELSE LET c1 == AST_fromPrenex(tokens_list, pos + 1) IN
                 IF c1.raised THEN c1
                 ELSE IF n = 1
                 THEN [raised |-> FALSE, node |-> Node(token, <<c1.node>>), pos |-> c1.pos]
                 ELSE LET c2 == AST_fromPrenex(tokens_list, c1.pos) IN
                      IF c2.raised THEN c2
                      ELSE [raised |-> FALSE, node |-> Node(token, <<c1.node, c2.node>>),
                            pos |-> c2.pos]

\* AST(prenex) followed by ast.fromPrenex(): the tokens, the root (nodes[0]) and
\* how many tokens the parse consumed
AST(p) ==
    LET tokens_list == customSplit(p)
        parsed == AST_fromPrenex(tokens_list, 0)
    IN [tokens_list |-> tokens_list, raised |-> parsed.raised,
        root |-> parsed.node, consumed |-> parsed.pos]

----------------------------------------------------------------------------
(* NFA.py *)

\* Python's None, where the other values are ints
None == -1

\* NFA(q0, qf, states, transitions): epsilonClosures is left to its default, the
\* one dict object shared by every such call (the variable epsilonClosures)
NFA(q0, qf, states, transitions) ==
    [q0 |-> q0, qf |-> qf, states |-> states, transitions |-> transitions]

\* NFA.next
NFA_next(n, from_state, on_chr) ==
    {n.transitions[i][3] : i \in {j \in 1..Len(n.transitions) :
                                    /\ n.transitions[j][1] = from_state
                                    /\ n.transitions[j][2] = on_chr}}

\* NFA.isFinal
NFA_isFinal(n, state) == state = n.qf

\* acceptsHelper(self, expr, state), lines 84-106. Its recursive calls, lines 97
\* and 102, pass two arguments to the three parameters (self, expr, state): the
\* first of them raises TypeError
acceptsHelper(n, closures, expr_, state) ==
    IF expr_ = <<>>
    THEN [raised |-> FALSE,
          value |-> NFA_isFinal(n, state)
                    \/ \E s \in closures[state] : NFA_isFinal(n, s)]
    ELSE IF NFA_next(n, state, <<expr_[1]>>) # {} THEN [raised |-> TRUE, value |-> FALSE]
    ELSE IF NFA_next(n, state, EPS) # {} THEN [raised |-> TRUE, value |-> FALSE]
    ELSE [raised |-> FALSE, value |-> FALSE]

\* NFA.accepts, line 108
NFA_accepts(n, closures, str_) == acceptsHelper(n, closures, str_, n.q0)

\* computeEpsilonClosureHelper: the DFS; `seen` is both the global `visited` and
\* self.currentEpsilonClosure, which receive the same states
RECURSIVE computeEpsilonClosureHelper(_, _, _), visitEach(_, _, _)
computeEpsilonClosureHelper(n, state, seen) ==
    visitEach(n, NFA_next(n, state, EPS), seen \cup {state})

\* its `for next_state in next_states` loop
visitEach(n, next_states, seen) ==
    IF next_states = {} THEN seen
    ELSE LET next_state == CHOOSE x \in next_states : TRUE
             seen1 == IF next_state \notin seen
                      THEN computeEpsilonClosureHelper(n, next_state, seen)
                      ELSE seen
         IN visitEach(n, next_states \ {next_state}, seen1)

computeEpsilonClosure(n, state) == computeEpsilonClosureHelper(n, state, {})

\* the combinators; idx is curr_state_idx when the call starts, and each returns
\* the NFA with curr_state_idx as the call leaves it
\* atomNFA without `curr_state_idx += 2`
atomNFA_stale(ch, idx) ==
    [nfa |-> NFA(idx, idx + 1, <<idx, idx + 1>>, <<<<idx, ch, idx + 1>>>>),
     idx |-> idx]

atomNFA(ch, idx) ==
    [nfa |-> NFA(idx, idx + 1, <<idx, idx + 1>>, <<<<idx, ch, idx + 1>>>>),
     idx |-> idx + 2]

concatNFA(nfa1, nfa2, idx) ==
    [nfa |-> NFA(nfa1.q0, nfa2.qf, nfa1.states \o nfa2.states,
                 <<<<nfa1.qf, EPS, nfa2.q0>>>> \o nfa1.transitions \o nfa2.transitions),
     idx |-> idx]

unionNFA(nfa1, nfa2, idx) ==
    LET q0 == idx
        qf == idx + 1
    IN [nfa |-> NFA(q0, qf, <<q0, qf>> \o nfa1.states \o nfa2.states,
                    << <<q0, EPS, nfa1.q0>>, <<q0, EPS, nfa2.q0>>,
                       <<nfa1.qf, EPS, qf>>, <<nfa2.qf, EPS, qf>> >>
                    \o nfa1.transitions \o nfa2.transitions),
        idx |-> idx + 2]

starNFA(n, idx) ==
    LET q0 == idx
        qf == idx + 1
    IN [nfa |-> NFA(q0, qf, <<q0, qf>> \o n.states,
                    << <<q0, EPS, n.q0>>, <<n.qf, EPS, qf>>,
                       <<q0, EPS, qf>>, <<n.qf, EPS, n.q0>> >> \o n.transitions),
        idx |-> idx + 2]

\* plusNFA with the edge that skips the operand, as starNFA has it
plusNFA_skip(n, idx) ==
    LET q0 == idx
        qf == idx + 1
    IN [nfa |-> NFA(q0, qf, <<q0, qf>> \o n.states,
                    << <<q0, EPS, n.q0>>, <<n.qf, EPS, qf>>,
                       <<q0, EPS, qf>>, <<n.qf, EPS, n.q0>> >> \o n.transitions),
        idx |-> idx + 2]

plusNFA(n, idx) ==
    LET q0 == idx
        qf == idx + 1
    IN [nfa |-> NFA(q0, qf, <<q0, qf>> \o n.states,
                    << <<q0, EPS, n.q0>>, <<n.qf, EPS, qf>>,
                       <<n.qf, EPS, n.q0>> >> \o n.transitions),
        idx |-> idx + 2]

maybeNFA(n, idx) ==
    [nfa |-> NFA(n.q0, n.qf, n.states, <<<<n.q0, EPS, n.qf>>>> \o n.transitions),
     idx |-> idx]

\* NFA.isAtom
isAtom(token) ==
    IF Len(token) = 0 THEN FALSE
    ELSE IF Len(token) = 1 THEN TRUE
    ELSE IF token[1] = "'" /\ token[Len(token)] = "'" /\ Len(token) = 3 THEN TRUE
    ELSE token \in {EPS, VOID}

\* what fromAST returns for a token that is neither an atom nor a keyword; a
\* combinator handed it fails on its first attribute access, so the failure
\* travels up to the caller
NoneNFA == [nfa |-> NFA(None, None, <<>>, <<>>), idx |-> None]

\* NFA.fromAST; arguments are evaluated left to right and before the call, so
\* children[0] is built before children[1] and both before the combinator
\* allocates its own states
RECURSIVE fromAST(_, _)
fromAST(root, idx) ==
    LET a == fromAST(root.children[1], idx)
        b == fromAST(root.children[2], a.idx)
    IN CASE isAtom(root.token) -> atomNFA(root.token, idx)
         [] root.token = STARkw /\ a.idx # None -> starNFA(a.nfa, a.idx)
         [] root.token = PLUSkw /\ a.idx # None -> plusNFA(a.nfa, a.idx)
         [] root.token = MAYBEkw /\ a.idx # None -> maybeNFA(a.nfa, a.idx)
         [] root.token = CONCATkw /\ a.idx # None /\ b.idx # None ->
                concatNFA(a.nfa, b.nfa, b.idx)
         [] root.token = UNIONkw /\ a.idx # None /\ b.idx # None ->
                unionNFA(a.nfa, b.nfa, b.idx)
         [] OTHER -> NoneNFA

\* NFA.fromPrenex: resets curr_state_idx, builds the NFA, then stores the closure
\* of each of its states in the shared dict `closures`; the entries of other ids
\* stay. Returns the NFA and the module globals as the call leaves them.
NFA_fromPrenex(p, closures) ==
    LET ast == AST(p)
        built == IF ast.raised THEN NoneNFA ELSE fromAST(ast.root, 0)
        n == built.nfa
        own == {n.states[i] : i \in 1..Len(n.states)}
    IN [nfa |-> n,
        curr_state_idx |-> built.idx,
        visited |-> {},
        epsilonClosures |->
            [s \in (DOMAIN closures) \cup own |->
                IF s \in own THEN computeEpsilonClosure(n, s) ELSE closures[s]]]

----------------------------------------------------------------------------
(* DFA.py *)

\* None, where the other values are strings
NoneStr == <<"None">>

DFA(q0, qfs, states, transitions, sink) ==
    [q0 |-> q0, qfs |-> qfs, states |-> states, transitions |-> transitions,
     sink |-> sink]

\* DFA.map; f is a function defined on every state
DFA_map(d, f) ==
    DFA(f[d.q0],
        [i \in 1..Len(d.qfs) |-> f[d.qfs[i]]],
        [i \in 1..Len(d.states) |-> f[d.states[i]]],
        [i \in 1..Len(d.transitions) |->
            <<f[d.transitions[i][1]], d.transitions[i][2], f[d.transitions[i][3]]>>],
        f[d.sink])

\* DFA.next: the first matching transition, None if there is none
DFA_next(d, from_state, on_chr) ==
    LET hits == {i \in 1..Len(d.transitions) :
                    /\ d.transitions[i][1] = from_state
                    /\ d.transitions[i][2] = on_chr}
    IN IF hits = {} THEN None ELSE d.transitions[SetMin(hits)][3]

\* DFA.isFinal
DFA_isFinal(d, state) == inList(state, d.qfs)

\* DFA.accepts, from `state` on
RECURSIVE acceptsFrom(_, _, _)
acceptsFrom(d, state, s) ==
    IF s = <<>> THEN DFA_isFinal(d, state)
    ELSE LET state1 == DFA_next(d, state, <<s[1]>>)
         IN IF state1 = None THEN FALSE ELSE acceptsFrom(d, state1, Tail(s))

DFA_accepts(d, s) == acceptsFrom(d, d.q0, s)

\* '_'.join(parts)
join(parts) ==
    flatten([i \in 1..(2 * Len(parts) - 1) |->
               IF i % 2 = 1 THEN parts[(i + 1) \div 2] ELSE <<"_">>])

\* DFA.setToStr
setToStr(states) ==
    LET sorted == sortedInts(states)
    IN join([i \in 1..Len(sorted) |-> str(sorted[i])])

\* DFA.strToSet
strToSet(s) ==
    LET parts == pieces(s, {i \in 1..Len(s) : s[i] = "_"})
    IN {int(parts[i]) : i \in {j \in 1..Len(parts) : Len(parts[j]) > 0}}

\* DFA.getAlphabet
getAlphabet(n) ==
    sortedStrs({n.transitions[i][2] : i \in {j \in 1..Len(n.transitions) :
                                               n.transitions[j][2] # EPS}})

\* the body of `for ch in alphabet`: the group reached on ch from the states
\* `members` = strToSet(last_group)
next_state_group(n, closures, members, ch) ==
    UNION {UNION {closures[next_state] : next_state \in NFA_next(n, state, ch)} :
             state \in members}

\* the loop over the alphabet leaving out the transitions into the empty group
forEachCh_partial(n, closures, alphabet, last_group, d) ==
    LET members == strToSet(last_group)
        target == [k \in 1..Len(alphabet) |->
                     setToStr(next_state_group(n, closures, members, alphabet[k]))]
        new == {k \in 1..Len(alphabet) :
                  /\ ~inList(target[k], d.states)
                  /\ \A h \in 1..(k - 1) : target[h] # target[k]}
        order == sortedInts(new)
        kept == sortedInts({k \in 1..Len(alphabet) : target[k] # <<>>})
    IN [d EXCEPT !.states = @ \o [j \in 1..Len(order) |-> target[order[j]]],
                 !.transitions =
                     @ \o [j \in 1..Len(kept) |->
                             <<last_group, alphabet[kept[j]], target[kept[j]]>>]]

\* `for ch in alphabet` for one last_group: every symbol adds its transition, and
\* a target group not yet in dfa.states is appended (once, at its first symbol).
\* d.states doubles as last_groups: the two lists start equal and grow by the
\* same appends
forEachCh(n, closures, alphabet, last_group, d) ==
    LET members == strToSet(last_group)
        target == [k \in 1..Len(alphabet) |->
                     setToStr(next_state_group(n, closures, members, alphabet[k]))]
        new == {k \in 1..Len(alphabet) :
                  /\ ~inList(target[k], d.states)
                  /\ \A h \in 1..(k - 1) : target[h] # target[k]}
        order == sortedInts(new)
    IN [d EXCEPT !.states = @ \o [j \in 1..Len(order) |-> target[order[j]]],
                 !.transitions =
                     @ \o [k \in 1..Len(alphabet) |-> <<last_group, alphabet[k], target[k]>>]]

\* `for last_group in last_groups`, from the g-th group on (g 0-based)
RECURSIVE forEachGroup(_, _, _, _, _)
forEachGroup(n, closures, alphabet, g, d) ==
    IF g >= Len(d.states) THEN d
    ELSE forEachGroup(n, closures, alphabet, g + 1,
                      forEachCh(n, closures, alphabet, d.states[g + 1], d))

\* the final groups found by the last digit of nfa.qf alone
finalGroups_digit(states, qf) ==
    LET keep == {i \in 1..Len(states) : contains(states[i], str(qf % 10))}
        order == sortedInts(keep)
    IN [k \in 1..Len(order) |-> states[order[k]]]

\* `[state for state in dfa.states if str(nfa.qf) in state]`
finalGroups(states, qf) ==
    LET keep == {i \in 1..Len(states) : contains(states[i], str(qf))}
        order == sortedInts(keep)
    IN [k \in 1..Len(order) |-> states[order[k]]]

\* DFAMapper.get_mapping(x), after get_mapping was called on keys[1..] in order:
\* the number of distinct keys seen before x was first seen
get_mapping(keys, x) ==
    LET first == SetMin({i \in 1..Len(keys) : keys[i] = x})
    IN Cardinality({keys[j] : j \in 1..(first - 1)})

\* DFA.map evaluating f on the states before the final states
mapCalls_states(d) ==
    <<d.q0>> \o d.states \o d.qfs
    \o flatten([i \in 1..Len(d.transitions) |->
                  <<d.transitions[i][1], d.transitions[i][3]>>])
    \o <<d.sink>>

\* the arguments DFA.map passes to f, in evaluation order
mapCalls(d) ==
    <<d.q0>> \o d.qfs \o d.states
    \o flatten([i \in 1..Len(d.transitions) |->
                  <<d.transitions[i][1], d.transitions[i][3]>>])
    \o <<d.sink>>

\* `dfa = dfa.map(DFAMapper().get_mapping)`
mapToInts(d) ==
    LET keys == mapCalls(d)
    IN DFA_map(d, [x \in Seq(STRING) |-> get_mapping(keys, x)])

\* the "Set sink state" loop: the first non-final state that loops on every symbol
setSink(d, alphabet) ==
    LET hits == {i \in 1..Len(d.states) :
                    /\ \A k \in 1..Len(alphabet) :
                          DFA_next(d, d.states[i], alphabet[k]) = d.states[i]
                    /\ ~DFA_isFinal(d, d.states[i])}
    IN IF hits = {} THEN d ELSE [d EXCEPT !.sink = d.states[SetMin(hits)]]

\* `if dfa.sink is None`: create a sink and send the undefined transitions to it
createSink(d, alphabet) ==
    IF d.sink # None THEN d
    ELSE LET sink == Len(d.states) + 1
             states == Append(d.states, sink)
             pairs == flatten([i \in 1..Len(states) |->
                                 [k \in 1..Len(alphabet) |-> <<states[i], alphabet[k]>>]])
             undefined == {j \in 1..Len(pairs) :
                             /\ DFA_next(d, pairs[j][1], pairs[j][2]) = None
                             /\ \A h \in 1..(j - 1) : pairs[h] # pairs[j]}
             order == sortedInts(undefined)
         IN [d EXCEPT !.sink = sink,
                      !.states = states,
                      !.transitions =
                          @ \o [k \in 1..Len(order) |->
                                  <<pairs[order[k]][1], pairs[order[k]][2], sink>>]]

\* DFA.fromNFA; `closures` is nfa.epsilonClosures, the shared dict
fromNFA(n, closures) ==
    LET alphabet == getAlphabet(n)
        q0_group == setToStr(closures[n.q0])
        explored == forEachGroup(n, closures, alphabet, 0,
                                 DFA(q0_group, <<>>, <<q0_group>>, <<>>, NoneStr))
        withFinals == [explored EXCEPT !.qfs = finalGroups(explored.states, n.qf)]
    IN createSink(setSink(mapToInts(withFinals), alphabet), alphabet)

\* DFA.fromPrenex, with the module globals as the call leaves them
DFA_fromPrenex(p, closures) ==
    LET built == NFA_fromPrenex(p, closures)
    IN [dfa |-> fromNFA(built.nfa, built.epsilonClosures),
        nfa |-> built.nfa,
        curr_state_idx |-> built.curr_state_idx,
        visited |-> built.visited,
        epsilonClosures |-> built.epsilonClosures]

----------------------------------------------------------------------------
(* Lex.py *)

\* the replace chain of Lexer.__init__
escaped(re) ==
    replace(replace(replace(replace(re,
        <<"\\", "(">>, <<"'", "(", "'">>),
        <<"\\", ")">>, <<"'", ")", "'">>),
        <<"\\", "*">>, <<"'", "*", "'">>),
        <<"\\", "+">>, <<"'", "+", "'">>)

\* `dfa.map(lambda x: x + counter)`
shifted(d, by) == DFA_map(d, [x \in Int |-> x + by])

\* what getLongestMatch returns for an empty dict
NoMatch == [token |-> NoneStr, idx |-> None]

\* the two nested loops of getLongestMatch over `pairs`, the (token, match)
\* pairs in iteration order, from the k-th pair on (k 0-based)
RECURSIVE longestFrom(_, _, _)
longestFrom(pairs, k, best) ==
    IF k >= Len(pairs) THEN best
    ELSE LET token == pairs[k + 1][1]
             match == pairs[k + 1][2]
         IN longestFrom(pairs, k + 1,
                        IF match >= best.idx THEN [token |-> token, idx |-> match]
                        ELSE best)

\* getLongestMatch returning the first candidate recorded instead of the longest
getLongestMatch_first(matchesDict) ==
    IF Len(matchesDict) = 0 THEN NoMatch
    ELSE [token |-> matchesDict[1].token, idx |-> matchesDict[1].matches[1]]

\* getLongestMatch walking the dict forwards instead of backwards
getLongestMatch_forwards(matchesDict) ==
    IF Len(matchesDict) = 0 THEN NoMatch
    ELSE LET pairs == flatten([i \in 1..Len(matchesDict) |->
                                 [j \in 1..Len(matchesDict[i].matches) |->
                                     <<matchesDict[i].token, matchesDict[i].matches[j]>>]])
         IN longestFrom(pairs, 0, [token |-> NoneStr, idx |-> 0])

\* Lexer.getLongestMatch; matchesDict lists (token, matches) in insertion order
getLongestMatch(matchesDict) ==
    IF Len(matchesDict) = 0 THEN NoMatch
    ELSE LET items == reversed(matchesDict)
             pairs == flatten([i \in 1..Len(items) |->
                                 [j \in 1..Len(items[i].matches) |->
                                     <<items[i].token, items[i].matches[j]>>]])
         IN longestFrom(pairs, 0, [token |-> NoneStr, idx |-> 0])

\* the inner `while curr_idx < len(word)` loop for one DFA
RECURSIVE simulate(_, _, _, _, _)
simulate(d, w, curr_idx, curr_state, found) ==
    IF curr_idx >= Len(w)
    THEN [matches |-> found, curr_idx |-> curr_idx, sunk |-> FALSE]
    ELSE LET curr_char == <<w[curr_idx + 1]>>
             state1 == DFA_next(d, curr_state, curr_char)
             found1 == IF inList(state1, d.qfs) THEN Append(found, curr_idx) ELSE found
         IN IF state1 = None \/ state1 = d.sink
            THEN [matches |-> found1, curr_idx |-> curr_idx, sunk |-> TRUE]
            ELSE simulate(d, w, curr_idx + 1, state1, found1)

\* `for token, dfa in self.dfas.items()`, from the k-th DFA on (k 0-based); a
\* token enters `matches` at its first append
RECURSIVE forEachDFA(_, _, _, _, _)
forEachDFA(ds, w, start, k, acc) ==
    IF k >= Len(ds) THEN acc
    ELSE LET run == simulate(ds[k + 1].dfa, w, start, ds[k + 1].dfa.q0, <<>>)
             acc1 == [matches |->
                          IF run.matches # <<>>
                          THEN Append(acc.matches,
                                      [token |-> ds[k + 1].token, matches |-> run.matches])
                          ELSE acc.matches,
                      num_sinks |-> acc.num_sinks + (IF run.sunk THEN 1 ELSE 0),
                      failed_curr_idx |->
                          IF run.curr_idx > acc.failed_curr_idx THEN run.curr_idx
                          ELSE acc.failed_curr_idx]
         IN IF acc1.num_sinks = Len(ds) THEN acc1
            ELSE forEachDFA(ds, w, start, k + 1, acc1)

\* the strings that lex puts into its message
EOF == <<"E", "O", "F">>

\* f'No viable alternative at character {character}, line {line}'
message(character, line) ==
    [error |-> TRUE, tokens |-> <<>>, character |-> character, line |-> line]

\* the except branch of lex
noViableAlternative(w, failed_curr_idx) ==
    IF count(w, "\n") = 0
    THEN IF failed_curr_idx = Len(w) THEN message(EOF, str(0))
         ELSE message(str(failed_curr_idx), str(0))
    ELSE LET last == IF failed_curr_idx < Len(w) THEN failed_curr_idx ELSE Len(w) - 1
             line == Cardinality({i \in 0..last : w[i + 1] = "\n"})
         IN IF failed_curr_idx = Len(w) THEN message(EOF, str(line))
            ELSE message(str(failed_curr_idx
                             - rfind(SubSeq(w, 1, failed_curr_idx), <<"\n">>)),
                         str(line))

\* the loop body skipping a character no category matches instead of returning
\* the error
lexStep_skip(ds, w, start) ==
    LET scan == forEachDFA(ds, w, start, 0,
                           [matches |-> <<>>, num_sinks |-> 0, failed_curr_idx |-> 0])
        longest == getLongestMatch(scan.matches)
    IN IF longest = NoMatch
       THEN [failed |-> FALSE,
             token |-> <<NoneStr, SubSeq(w, start + 1, start + 1)>>,
             start_idx |-> start + 1]
       ELSE [failed |-> FALSE,
             token |-> <<longest.token, SubSeq(w, start + 1, longest.idx + 1)>>,
             start_idx |-> longest.idx + 1]

\* the loop body resuming at the last character of the lexeme instead of
\* behind it
lexStep_stall(ds, w, start) ==
    LET scan == forEachDFA(ds, w, start, 0,
                           [matches |-> <<>>, num_sinks |-> 0, failed_curr_idx |-> 0])
        longest == getLongestMatch(scan.matches)
    IN IF longest = NoMatch
       THEN [failed |-> TRUE, ret |-> noViableAlternative(w, scan.failed_curr_idx)]
       ELSE [failed |-> FALSE,
             token |-> <<longest.token, SubSeq(w, start + 1, longest.idx + 1)>>,
             start_idx |-> longest.idx]

\* the loop body slicing word[start_idx : longestIdx] instead of
\* word[start_idx : longestIdx + 1]
lexStep_short(ds, w, start) ==
    LET scan == forEachDFA(ds, w, start, 0,
                           [matches |-> <<>>, num_sinks |-> 0, failed_curr_idx |-> 0])
        longest == getLongestMatch(scan.matches)
    IN IF longest = NoMatch
       THEN [failed |-> TRUE, ret |-> noViableAlternative(w, scan.failed_curr_idx)]
       ELSE [failed |-> FALSE,
             token |-> <<longest.token, SubSeq(w, start + 1, longest.idx)>>,
             start_idx |-> longest.idx + 1]

\* one pass of the body of `while start_idx < len(word)`
lexStep(ds, w, start) ==
    LET scan == forEachDFA(ds, w, start, 0,
                           [matches |-> <<>>, num_sinks |-> 0, failed_curr_idx |-> 0])
        longest == getLongestMatch(scan.matches)
    IN IF longest = NoMatch
       THEN [failed |-> TRUE, ret |-> noViableAlternative(w, scan.failed_curr_idx)]
       ELSE [failed |-> FALSE,
             token |-> <<longest.token, SubSeq(w, start + 1, longest.idx + 1)>>,
             start_idx |-> longest.idx + 1]

----------------------------------------------------------------------------
(* The scanner: a Lexer is constructed from a configuration, then lex is     *)
(* called on a word.                                                        *)

MaxCats == 3
MaxWordLen == 3

\* the regexes the bounded configurations are made of:  a  ab  a*  '\n'
RegexPool ==
    << <<"a">>, <<"a", "b">>, <<"a", "*">>, <<"'", "\n", "'">> >>

WordChars == {"a", "b", "\n"}

tokenName(i) == <<"T">> \o str(i)

NUM == <<"N", "U", "M">>
ID  == <<"I", "D">>

\* NUM -> "[0-9]+", ID -> "[a-zA-Z]+"
NumIdConfig ==
    << [token |-> NUM, regex |-> <<"[", "0", "-", "9", "]", "+">>],
       [token |-> ID,  regex |-> <<"[", "a", "-", "z", "A", "-", "Z", "]", "+">>] >>

Word123abc == <<"1", "2", "3", "a", "b", "c">>

Configs ==
    UNION {{[i \in 1..n |-> [token |-> tokenName(i), regex |-> RegexPool[f[i]]]] :
              f \in [1..n -> 1..Len(RegexPool)]} : n \in 1..MaxCats}
    \cup {NumIdConfig}

Words == UNION {[1..n -> WordChars] : n \in 0..MaxWordLen} \cup {Word123abc}

NoNFA == NFA(None, None, <<>>, <<>>)
NoDFA == DFA(None, <<>>, <<>>, <<>>, None)
NoExpr == [op |-> <<>>, kids |-> <<>>]
NoAST == [tokens_list |-> <<>>, raised |-> FALSE, root |-> Node(<<>>, <<>>), consumed |-> 0]
NoRet == [error |-> FALSE, tokens |-> <<>>, character |-> <<>>, line |-> <<>>]

\* the module globals as NFA.py leaves them when it is imported
Loaded ==
    /\ curr_state_idx = 0
    /\ visited = {}
    /\ epsilonClosures = <<>>

Init ==
    /\ Loaded
    /\ pc = "Lexer"
    /\ configurations \in Configs
    /\ dfas = <<>>
    /\ counter = 0
    /\ word = <<>>
    /\ start_idx = 0
    /\ output = <<>>
    /\ ret = NoRet
    /\ regex = <<>>
    /\ prenex = <<>>
    /\ nfa = NoNFA
    /\ dfa = NoDFA
    /\ tree = NoAST
    /\ accepted = FALSE
    /\ expr = NoExpr
    /\ prenex2 = <<>>

\* Lexer.__init__, lines 23-36: the escapes are rewritten in every regex
LexerInit ==
    /\ pc = "Lexer"
    /\ configurations' = [i \in 1..Len(configurations) |->
                            [configurations[i] EXCEPT !.regex = escaped(@)]]
    /\ dfas' = <<>>
    /\ counter' = 0
    /\ pc' = "toPrenex"
    /\ UNCHANGED <<curr_state_idx, visited, epsilonClosures, word, start_idx, output,
                   ret, regex, prenex, nfa, dfa,
                   tree, accepted, expr, prenex2>>

\* line 38, for the next token of the configuration
CompilePrenex ==
    /\ pc = "toPrenex"
    /\ prenex' = toPrenex(configurations[Len(dfas) + 1].regex)
    /\ pc' = "fromPrenex"
    /\ UNCHANGED <<curr_state_idx, visited, epsilonClosures, configurations, dfas,
                   counter, word, start_idx, output, ret, regex, nfa, dfa,
                   tree, accepted, expr, prenex2>>

\* line 39
CompileNFA ==
    /\ pc = "fromPrenex"
    /\ LET built == NFA_fromPrenex(prenex, epsilonClosures)
       IN /\ nfa' = built.nfa
          /\ curr_state_idx' = built.curr_state_idx
          /\ visited' = built.visited
          /\ epsilonClosures' = built.epsilonClosures
    /\ pc' = "fromNFA"
    /\ UNCHANGED <<configurations, dfas, counter, word, start_idx, output, ret, regex,
                   prenex, dfa,
                   tree, accepted, expr, prenex2>>

\* line 40
CompileDFA ==
    /\ pc = "fromNFA"
    /\ dfa' = fromNFA(nfa, epsilonClosures)
    /\ pc' = "store"
    /\ UNCHANGED <<curr_state_idx, visited, epsilonClosures, configurations, dfas,
                   counter, word, start_idx, output, ret, regex, prenex, nfa,
                   tree, accepted, expr, prenex2>>

\* lines 41-43; the constructor returns after the last token
StoreDFA ==
    /\ pc = "store"
    /\ dfas' = Append(dfas, [token |-> configurations[Len(dfas) + 1].token,
                             dfa |-> shifted(dfa, counter)])
    /\ counter' = counter + Len(nfa.states)
    /\ pc' = IF Len(dfas) + 1 = Len(configurations) THEN "ready" ELSE "toPrenex"
    /\ UNCHANGED <<curr_state_idx, visited, epsilonClosures, configurations, word,
                   start_idx, output, ret, regex, prenex, nfa, dfa,
                   tree, accepted, expr, prenex2>>

\* lex(word) is called: lines 76-77
LexCall ==
    /\ pc = "ready"
    /\ word' \in Words
    /\ output' = <<>>
    /\ start_idx' = 0
    /\ pc' = "lex"
    /\ UNCHANGED <<curr_state_idx, visited, epsilonClosures, configurations, dfas,
                   counter, ret, regex, prenex, nfa, dfa,
                   tree, accepted, expr, prenex2>>

\* one pass of the while loop, lines 79-131: a token is emitted or the error
\* message is returned
LexLoop ==
    /\ pc = "lex"
    /\ start_idx < Len(word)
    /\ LET step == lexStep(dfas, word, start_idx)
       IN IF step.failed
          THEN /\ ret' = step.ret
               /\ pc' = "done"
               /\ UNCHANGED <<output, start_idx>>
          ELSE /\ output' = Append(output, step.token)
               /\ start_idx' = step.start_idx
               /\ UNCHANGED <<ret, pc>>
    /\ UNCHANGED <<curr_state_idx, visited, epsilonClosures, configurations, dfas,
                   counter, word, regex, prenex, nfa, dfa,
                   tree, accepted, expr, prenex2>>

\* the loop ends, line 133
LexReturn ==
    /\ pc = "lex"
    /\ start_idx >= Len(word)
    /\ ret' = [error |-> FALSE, tokens |-> output, character |-> <<>>, line |-> <<>>]
    /\ pc' = "done"
    /\ UNCHANGED <<curr_state_idx, visited, epsilonClosures, configurations, dfas,
                   counter, word, start_idx, output, regex, prenex, nfa, dfa,
                   tree, accepted, expr, prenex2>>

Next ==
    \/ LexerInit
    \/ CompilePrenex
    \/ CompileNFA
    \/ CompileDFA
    \/ StoreDFA
    \/ LexCall
    \/ LexLoop
    \/ LexReturn

Spec == Init /\ [][Next]_vars

----------------------------------------------------------------------------
(* Properties of the scanner *)

\* DFA k of the lexer (1-based) accepts word[start..e] (0-based, inclusive)
AcceptsAt(k, start, e) == DFA_accepts(dfas[k].dfa, SubSeq(word, start + 1, e + 1))

\* the categories with a candidate ending at e from the cursor `start`
Candidates(start, e) == {k \in 1..Len(dfas) : AcceptsAt(k, start, e)}

\* the lexemes of a token list, concatenated
Lexemes(tokens) == flatten([i \in 1..Len(tokens) |-> tokens[i][2]])

\* some category is named tok and its DFA accepts the lexeme
MatchedBy(tok, lexeme) ==
    \E k \in 1..Len(dfas) : dfas[k].token = tok /\ DFA_accepts(dfas[k].dfa, lexeme)

\* C1: every pass of the loop of lex that emits a token from the cursor start_idx
\* emits the lexeme word[start_idx..e], where e is the greatest index >= start_idx
\* at which some configured DFA accepts word[start_idx..e]; no DFA accepts a
\* longer prefix of word[start_idx:]
C1_LongestMatch ==
    [][(pc = "lex" /\ Len(output') = Len(output) + 1) =>
          LET e == start_idx' - 1
          IN /\ e >= start_idx
             /\ output'[Len(output')][2] = SubSeq(word, start_idx + 1, e + 1)
             /\ Candidates(start_idx, e) # {}
             /\ \A e2 \in (e + 1)..(Len(word) - 1) : Candidates(start_idx, e2) = {}]_vars

\* a token of two or more characters was emitted although a category accepts its
\* first character alone
C1_Witness ==
    /\ pc \in {"lex", "done"}
    /\ \E i \in 1..Len(output) :
          /\ Len(output[i][2]) >= 2
          /\ \E k \in 1..Len(dfas) : DFA_accepts(dfas[k].dfa, SubSeq(output[i][2], 1, 1))

\* C2: when several categories have a candidate ending at the greatest endpoint,
\* the token emitted carries the category declared earliest among them, whatever
\* the number of categories and whichever categories recorded no match
C2_PriorityTieBreak ==
    [][(pc = "lex" /\ Len(output') = Len(output) + 1) =>
          LET tied == Candidates(start_idx, start_idx' - 1)
          IN /\ tied # {}
             /\ output'[Len(output')][1] = dfas[SetMin(tied)].token]_vars

\* the first token went to the second of three categories: the first one accepts
\* no prefix of the word, the second and the third tie on the lexeme
C2_Witness ==
    /\ pc \in {"lex", "done"}
    /\ Len(dfas) = 3
    /\ Len(output) >= 1
    /\ \A e \in 0..(Len(word) - 1) : ~AcceptsAt(1, 0, e)
    /\ output[1][1] = dfas[2].token
    /\ DFA_accepts(dfas[2].dfa, output[1][2])
    /\ DFA_accepts(dfas[3].dfa, output[1][2])

\* C3: with NUM -> "[0-9]+" declared before ID -> "[a-zA-Z]+", lex("123abc")
\* returns [(NUM, "123"), (ID, "abc")]
C3_NumThenId ==
    (pc = "done" /\ configurations = NumIdConfig /\ word = Word123abc) =>
        /\ ~ret.error
        /\ ret.tokens = << <<NUM, <<"1", "2", "3">> >>, <<ID, <<"a", "b", "c">> >> >>

\* the furthest index reached by any DFA from the cursor (failed_curr_idx)
FurthestIndex ==
    forEachDFA(dfas, word, start_idx, 0,
               [matches |-> <<>>, num_sinks |-> 0, failed_curr_idx |-> 0]).failed_curr_idx

\* 0-based line of index f: the newlines before f
LineOf(f) == Cardinality({i \in 0..(f - 1) : word[i + 1] = "\n"})

\* 1-based column of index f: f minus the index of the last newline before f, or
\* f + 1 when there is none
ColumnOf(f) ==
    LET before == {i \in 0..(f - 1) : word[i + 1] = "\n"}
    IN IF before = {} THEN f + 1 ELSE f - SetMax(before)

\* C4: when lex fails with the furthest index f < len(word), the message names
\* the 0-based line of f and the 1-based column of f in that line, for words with
\* and without newlines
C4_ErrorPosition ==
    (pc = "done" /\ ret.error /\ FurthestIndex < Len(word)) =>
        /\ ret.line = str(LineOf(FurthestIndex))
        /\ ret.character = str(ColumnOf(FurthestIndex))

\* C5: lex returns either the complete token list, whose lexemes cover the whole
\* word, or the error alone; the error is the one of the first cursor position
\* at which no category matches, and the tokens emitted before it are not returned
C5_NoPartialSuccess ==
    pc = "done" =>
        /\ \A i \in 1..Len(output) : MatchedBy(output[i][1], output[i][2])
        /\ Lexemes(output) = SubSeq(word, 1, start_idx)
        /\ IF ret.error
           THEN /\ start_idx < Len(word)
                /\ \A e \in start_idx..(Len(word) - 1) : Candidates(start_idx, e) = {}
                /\ ret = noViableAlternative(word, FurthestIndex)
                /\ ret.tokens = <<>>
           ELSE /\ start_idx = Len(word)
                /\ ret.tokens = output

\* lex failed after it had emitted a token
C5_Witness ==
    /\ pc = "done"
    /\ ret.error
    /\ Len(output) >= 1

\* the state predicate ENABLED <<LexLoop>>_vars: the loop condition holds; the
\* body is total, and a pass changes output or pc
LexLoopEnabled == pc = "lex" /\ start_idx < Len(word)

\* the scanner under the scheduling of a sequential program: once lex is
\* called, the next pass of its loop, or its return, does run. The first
\* conjunct after Spec is WF_vars(LexLoop) written out by its definition
SpecFair ==
    /\ Spec
    /\ ([]<>~LexLoopEnabled \/ []<><<LexLoop>>_vars)
    /\ WF_vars(LexReturn)

\* a category whose DFA accepts the empty string
Nullable(k) == DFA_isFinal(dfas[k].dfa, dfas[k].dfa.q0)

\* C14: lex terminates: every pass of its loop either returns the error or
\* emits a lexeme of length >= 1 and strictly increases start_idx, also where
\* the DFA of a category accepts in its start state; the loop is left without
\* an error exactly when start_idx = len(word); a call of lex returns
C14_Terminates ==
    /\ [][(pc = "lex" /\ pc' = "lex") =>
             /\ start_idx' > start_idx
             /\ start_idx' <= Len(word)
             /\ Len(output') = Len(output) + 1
             /\ Len(output'[Len(output')][2]) >= 1]_vars
    /\ [][(pc = "lex" /\ pc' = "done") =>
             (ret'.error <=> start_idx < Len(word))]_vars
    /\ [][(pc = "lex" /\ start_idx = Len(word)) =>
             (pc' = "done" /\ ~ret'.error)]_vars
    /\ (pc = "lex") ~> (pc = "done")

\* lex returned three tokens, two of them of a category that accepts the empty
\* string
C14_Witness ==
    /\ pc = "done"
    /\ ~ret.error
    /\ Len(ret.tokens) = 3
    /\ \E i, j \in 1..Len(ret.tokens) :
          /\ i # j
          /\ \A h \in {i, j} :
                \A k \in 1..Len(dfas) : dfas[k].token = ret.tokens[h][1] => Nullable(k)

\* the index of word (0-based) at which the i-th emitted lexeme starts
Offset(i) == Len(Lexemes(SubSeq(output, 1, i - 1)))

\* C15: the emitted lexemes are consecutive, non-overlapping substrings of the
\* input: at every pass of the loop their concatenation is word[0:start_idx],
\* and the concatenation of a returned token list is the whole input
C15_Coverage ==
    pc \in {"lex", "done"} =>
        /\ \A i \in 1..Len(output) :
              output[i][2] = SubSeq(word, Offset(i) + 1, Offset(i + 1))
        /\ Offset(Len(output) + 1) = start_idx
        /\ Lexemes(output) = SubSeq(word, 1, start_idx)
        /\ (pc = "done" /\ ~ret.error) => Lexemes(ret.tokens) = word

\* lex is between two passes, with a lexeme of two characters emitted and
\* input left
C15_Witness ==
    /\ pc = "lex"
    /\ start_idx < Len(word)
    /\ \E i \in 1..Len(output) : Len(output[i][2]) >= 2

----------------------------------------------------------------------------
(* DFA.fromPrenex on a prenex expression, then DFA.accepts on a word *)

MaxOps == 2
MaxAcceptLen == 4

Leaf(token) == [op |-> token, kids |-> <<>>]

Unary(o, e) == [op |-> o, kids |-> <<e>>]

Binary(o, l, r) == [op |-> o, kids |-> <<l, r>>]

a_ == Leaf(<<"a">>)
b_ == Leaf(<<"b">>)

\* the expressions with exactly n operators over the atoms a, b and eps
RECURSIVE ExprsOfSize(_)
ExprsOfSize(n) ==
    IF n = 0 THEN {a_, b_, Leaf(EPS)}
    ELSE {Unary(o, e) : o \in {STARkw, PLUSkw, MAYBEkw}, e \in ExprsOfSize(n - 1)}
         \cup UNION {{Binary(o, l, r) : o \in {UNIONkw, CONCATkw},
                                        l \in ExprsOfSize(i),
                                        r \in ExprsOfSize(n - 1 - i)} : i \in 0..(n - 1)}

\* expressions whose NFAs have ten states and more
LargeExprs ==
    { Unary(STARkw, Binary(UNIONkw, Unary(STARkw, a_), Unary(PLUSkw, b_))),
      Binary(CONCATkw, Binary(UNIONkw, a_, b_), Unary(STARkw, Binary(UNIONkw, a_, b_))),
      Binary(CONCATkw, Binary(CONCATkw, Binary(UNIONkw, a_, b_), Binary(UNIONkw, a_, b_)),
                       Binary(UNIONkw, a_, b_)),
      Binary(CONCATkw, Unary(PLUSkw, Binary(UNIONkw, a_, Leaf(EPS))),
                       Unary(MAYBEkw, Binary(CONCATkw, b_, Unary(STARkw, a_)))) }

\* expressions over the atom void
VoidExprs ==
    { Leaf(VOID),
      Unary(STARkw, Leaf(VOID)),
      Binary(UNIONkw, a_, Leaf(VOID)),
      Binary(CONCATkw, Leaf(VOID), b_) }

Exprs == UNION {ExprsOfSize(n) : n \in 0..MaxOps} \cup LargeExprs \cup VoidExprs

\* the tokens of the prenex form of e
RECURSIVE Written(_)
Written(e) ==
    <<e.op>> \o flatten([i \in 1..Len(e.kids) |-> Written(e.kids[i])])

\* the prenex string of e: its tokens separated by blanks
PrenexOf(e) ==
    LET tokens == Written(e)
    IN flatten([i \in 1..(2 * Len(tokens) - 1) |->
                  IF i % 2 = 1 THEN tokens[(i + 1) \div 2] ELSE <<" ">>])

AcceptWords == UNION {[1..n -> {"a", "b"}] : n \in 0..MaxAcceptLen}

InitDFA ==
    /\ Loaded
    /\ pc = "prenex"
    /\ expr \in Exprs
    /\ prenex2 = <<>>
    /\ prenex = PrenexOf(expr)
    /\ configurations = <<>>
    /\ dfas = <<>>
    /\ counter = 0
    /\ word = <<>>
    /\ start_idx = 0
    /\ output = <<>>
    /\ ret = NoRet
    /\ regex = <<>>
    /\ nfa = NoNFA
    /\ dfa = NoDFA
    /\ tree = NoAST
    /\ accepted = FALSE

\* DFA.fromPrenex, line 165: nfa = NFA.fromPrenex(prenex)
FromPrenexNFA ==
    /\ pc = "prenex"
    /\ LET built == NFA_fromPrenex(prenex, epsilonClosures)
       IN /\ nfa' = built.nfa
          /\ curr_state_idx' = built.curr_state_idx
          /\ visited' = built.visited
          /\ epsilonClosures' = built.epsilonClosures
    /\ pc' = "nfa"
    /\ UNCHANGED <<configurations, dfas, counter, word, start_idx, output, ret, regex,
                   prenex, dfa, tree, accepted, expr, prenex2>>

\* DFA.fromPrenex, line 166: return DFA.fromNFA(nfa)
FromPrenexDFA ==
    /\ pc = "nfa"
    /\ dfa' = fromNFA(nfa, epsilonClosures)
    /\ pc' = "dfa"
    /\ UNCHANGED <<curr_state_idx, visited, epsilonClosures, configurations, dfas,
                   counter, word, start_idx, output, ret, regex, prenex, nfa, tree,
                   accepted, expr, prenex2>>

\* dfa.accepts(word)
Accepts ==
    /\ pc = "dfa"
    /\ \E w \in AcceptWords :
          /\ word' = w
          /\ accepted' = DFA_accepts(dfa, w)
    /\ pc' = "accepted"
    /\ UNCHANGED <<curr_state_idx, visited, epsilonClosures, configurations, dfas,
                   counter, start_idx, output, ret, regex, prenex, nfa, dfa, tree, expr, prenex2>>

NextDFA ==
    \/ FromPrenexNFA
    \/ FromPrenexDFA
    \/ Accepts

SpecDFA == InitDFA /\ [][NextDFA]_vars

\* DFA.fromNFA has returned
Built == pc = "dfa"

\* the transitions of the DFA from state s on symbol c
TransitionsOn(s, c) ==
    {i \in 1..Len(dfa.transitions) : dfa.transitions[i][1] = s /\ dfa.transitions[i][2] = c}

\* C6: in the DFA returned by fromNFA, every state of dfa.states has exactly one
\* transition on every symbol of the alphabet, so DFA.next never returns None
\* for such a pair
C6_Totality ==
    Built =>
        LET alphabet == getAlphabet(nfa)
        IN \A i \in 1..Len(dfa.states) : \A k \in 1..Len(alphabet) :
              /\ Cardinality(TransitionsOn(dfa.states[i], alphabet[k])) = 1
              /\ DFA_next(dfa, dfa.states[i], alphabet[k]) # None

\* a DFA over two symbols with three states or more, one of them the dead state
C6_Witness ==
    /\ Built
    /\ Len(getAlphabet(nfa)) = 2
    /\ Len(dfa.states) >= 3
    /\ inList(dfa.sink, dfa.states)

\* C7: in the DFA returned by fromNFA, dfa.sink is one of dfa.states, is not
\* accepting and loops to itself on every symbol of the alphabet; where the
\* subset construction reached no dead state, one is synthesized and appended
C7_Sink ==
    Built =>
        LET alphabet == getAlphabet(nfa)
        IN /\ inList(dfa.sink, dfa.states)
           /\ ~DFA_isFinal(dfa, dfa.sink)
           /\ \A k \in 1..Len(alphabet) : DFA_next(dfa, dfa.sink, alphabet[k]) = dfa.sink

\* the groups of NFA state ids in the order the subset construction found them;
\* DFA.map keeps the order, so dfa.states[i] stands for Groups[i]
Groups ==
    LET q0_group == setToStr(epsilonClosures[nfa.q0])
    IN forEachGroup(nfa, epsilonClosures, getAlphabet(nfa), 0,
                    DFA(q0_group, <<>>, <<q0_group>>, <<>>, NoneStr)).states

\* C8: a state of the DFA is accepting iff the set of NFA state ids it stands for
\* contains nfa.qf, also for ids of several digits and for the empty set
C8_Accepting ==
    Built =>
        LET gs == Groups
        IN \A i \in 1..Len(gs) :
              DFA_isFinal(dfa, dfa.states[i]) <=> nfa.qf \in strToSet(gs[i])

\* an NFA with more than ten states whose DFA has an accepting state, a
\* non-accepting state that holds an id of two digits, and the empty set
C8_Witness ==
    /\ Built
    /\ nfa.qf >= 10
    /\ LET gs == Groups
       IN /\ \E i \in 1..Len(gs) : nfa.qf \in strToSet(gs[i])
          /\ \E i \in 1..Len(gs) :
                /\ nfa.qf \notin strToSet(gs[i])
                /\ \E q \in strToSet(gs[i]) : q >= 10
          /\ \E i \in 1..Len(gs) : gs[i] = <<>>

\* the language of an expression: w is in the language denoted by e
RECURSIVE Denotes(_, _)
Denotes(e, w) ==
    LET n == Len(w)
        left(i) == SubSeq(w, 1, i)
        right(i) == SubSeq(w, i + 1, n)
    IN CASE e.op = UNIONkw -> Denotes(e.kids[1], w) \/ Denotes(e.kids[2], w)
         [] e.op = CONCATkw ->
                \E i \in 0..n : Denotes(e.kids[1], left(i)) /\ Denotes(e.kids[2], right(i))
         [] e.op = STARkw ->
                \/ n = 0
                \/ \E i \in 1..n : Denotes(e.kids[1], left(i)) /\ Denotes(e, right(i))
         [] e.op = PLUSkw ->
                \E i \in 0..n : /\ Denotes(e.kids[1], left(i))
                                /\ Denotes(Unary(STARkw, e.kids[1]), right(i))
         [] e.op = MAYBEkw -> n = 0 \/ Denotes(e.kids[1], w)
         [] e.op = EPS -> n = 0
         [] e.op = VOID -> FALSE
         [] OTHER -> w = e.op

\* C9: DFA.fromPrenex(p).accepts(w) is true exactly when w is in the language
\* denoted by p, for every expression over atoms, eps, UNION, CONCAT, STAR, PLUS
\* and MAYBE and every word of the pool
C9_OperatorSemantics ==
    pc = "accepted" => (accepted <=> Denotes(expr, word))

\* 'STAR a' accepted "aaaa"
C9_Witness ==
    /\ pc = "accepted"
    /\ expr = Unary(STARkw, a_)
    /\ word = <<"a", "a", "a", "a">>
    /\ accepted

\* NFA.fromPrenex has returned
BuiltNFA == pc = "nfa"

\* the operators of an expression
RECURSIVE OpsOf(_)
OpsOf(e) ==
    {e.op} \cup UNION {OpsOf(e.kids[i]) : i \in 1..Len(e.kids)}

\* C11: every NFA returned by NFA.fromPrenex has one start state q0 and one
\* accept state qf, both members of nfa.states and different from each other,
\* and the ids of nfa.states are pairwise distinct, for every combination of
\* atom, CONCAT, UNION, STAR, PLUS and MAYBE
C11_Thompson ==
    BuiltNFA =>
        /\ nfa.q0 \in Int /\ nfa.qf \in Int
        /\ inList(nfa.q0, nfa.states)
        /\ inList(nfa.qf, nfa.states)
        /\ nfa.q0 # nfa.qf
        /\ \A i, j \in 1..Len(nfa.states) : i # j => nfa.states[i] # nfa.states[j]

\* an NFA of eight states or more built with CONCAT, UNION and a unary operator
C11_Witness ==
    /\ BuiltNFA
    /\ {CONCATkw, UNIONkw} \subseteq OpsOf(expr)
    /\ OpsOf(expr) \cap {STARkw, PLUSkw, MAYBEkw} # {}
    /\ Len(nfa.states) >= 8

\* C12: the atom void yields an NFA of two states and no transition at all,
\* so that its accept state cannot be reached, and void is not a symbol of
\* the alphabet of the DFA
C12_VoidAtom ==
    (pc \in {"nfa", "dfa"} /\ expr = Leaf(VOID)) =>
        /\ Len(nfa.states) = 2
        /\ nfa.transitions = <<>>
        /\ ~inList(VOID, getAlphabet(nfa))

\* whether the group g holds nfa.qf
Accepting(g) == nfa.qf \in strToSet(g)

\* positions of the groups gs in the order DFA.map first hands them to the
\* mapper: the start group, the accepting groups, then the other groups
MapperOrder(gs) ==
    LET n == Len(gs)
    IN <<1>> \o sortedInts({i \in 2..n : Accepting(gs[i])})
            \o sortedInts({i \in 2..n : ~Accepting(gs[i])})

\* C13 as stated: the subsets are renamed to 0..n-1 in the order of their
\* discovery, the group found k-th being k - 1, accepting or not
C13_DiscoveryOrder ==
    Built => \A i \in 1..Len(Groups) : dfa.states[i] = i - 1

\* C13 amended: the subsets are renamed to the dense integers 0..n-1: the start
\* subset is 0, the accepting subsets follow in the order of their discovery,
\* and the remaining subsets come last in the order of their discovery
C13_MapperOrder ==
    Built =>
        LET gs == Groups
            order == MapperOrder(gs)
        IN /\ {dfa.states[i] : i \in 1..Len(gs)} = 0..(Len(gs) - 1)
           /\ \A k \in 1..Len(gs) : dfa.states[order[k]] = k - 1

\* a DFA in which an accepting subset was discovered after a non-accepting
\* subset other than the start subset
C13_Witness ==
    /\ Built
    /\ LET gs == Groups
       IN \E i, j \in 2..Len(gs) : i < j /\ ~Accepting(gs[i]) /\ Accepting(gs[j])

----------------------------------------------------------------------------
(* NFA.fromPrenex on a prenex expression, then NFA.accepts on a word *)

\* nfa.accepts(word)
NFAAccepts ==
    /\ pc = "nfa"
    /\ \E w \in AcceptWords :
          LET call == NFA_accepts(nfa, epsilonClosures, w)
          IN /\ word' = w
             /\ accepted' = call.value
             /\ pc' = IF call.raised THEN "TypeError" ELSE "returned"
    /\ UNCHANGED <<curr_state_idx, visited, epsilonClosures, configurations, dfas,
                   counter, start_idx, output, ret, regex, prenex, nfa, dfa, tree, expr,
                   prenex2>>

NextNFA ==
    \/ FromPrenexNFA
    \/ NFAAccepts

SpecNFA == InitDFA /\ [][NextNFA]_vars

\* C17: NFA.accepts terminates with a boolean for every NFA built by
\* NFA.fromPrenex and every finite string, NFAs with epsilon-cycles and
\* rejected strings included: no call ends in an exception
C17_AcceptsReturns ==
    pc # "TypeError"

----------------------------------------------------------------------------
(* Two builds: NFA.fromPrenex(p1), NFA.fromPrenex(p2), then DFA.fromNFA of *)
(* the first NFA                                                          *)

MaxBuildOps == 1

BuildExprs == UNION {ExprsOfSize(n) : n \in 0..MaxBuildOps}

InitBuilds ==
    /\ Loaded
    /\ pc = "n1"
    /\ expr \in BuildExprs
    /\ prenex = PrenexOf(expr)
    /\ prenex2 \in {PrenexOf(e) : e \in BuildExprs}
    /\ configurations = <<>>
    /\ dfas = <<>>
    /\ counter = 0
    /\ word = <<>>
    /\ start_idx = 0
    /\ output = <<>>
    /\ ret = NoRet
    /\ regex = <<>>
    /\ nfa = NoNFA
    /\ dfa = NoDFA
    /\ tree = NoAST
    /\ accepted = FALSE

\* n1 = NFA.fromPrenex(p1)
BuildFirst ==
    /\ pc = "n1"
    /\ LET built == NFA_fromPrenex(prenex, epsilonClosures)
       IN /\ nfa' = built.nfa
          /\ curr_state_idx' = built.curr_state_idx
          /\ visited' = built.visited
          /\ epsilonClosures' = built.epsilonClosures
    /\ pc' = "n2"
    /\ UNCHANGED <<configurations, dfas, counter, word, start_idx, output, ret, regex,
                   prenex, dfa, tree, accepted, expr, prenex2>>

\* NFA.fromPrenex(p2); `nfa` stays n1
BuildSecond ==
    /\ pc = "n2"
    /\ LET built == NFA_fromPrenex(prenex2, epsilonClosures)
       IN /\ curr_state_idx' = built.curr_state_idx
          /\ visited' = built.visited
          /\ epsilonClosures' = built.epsilonClosures
    /\ pc' = "fromNFA1"
    /\ UNCHANGED <<configurations, dfas, counter, word, start_idx, output, ret, regex,
                   prenex, nfa, dfa, tree, accepted, expr, prenex2>>

\* DFA.fromNFA(n1)
ConvertFirst ==
    /\ pc = "fromNFA1"
    /\ dfa' = fromNFA(nfa, epsilonClosures)
    /\ pc' = "dfa1"
    /\ UNCHANGED <<curr_state_idx, visited, epsilonClosures, configurations, dfas,
                   counter, word, start_idx, output, ret, regex, prenex, nfa, tree,
                   accepted, expr, prenex2>>

NextBuilds ==
    \/ BuildFirst
    \/ BuildSecond
    \/ ConvertFirst

SpecBuilds == InitBuilds /\ [][NextBuilds]_vars

\* C16: a call of NFA.fromPrenex for a second expression between
\* n1 = NFA.fromPrenex(p1) and DFA.fromNFA(n1) leaves n1.epsilonClosures as the
\* first call computed them, and DFA.fromNFA(n1) is the DFA of DFA.fromPrenex(p1)
C16_Independence ==
    /\ pc \in {"fromNFA1", "dfa1"} =>
          \A i \in 1..Len(nfa.states) :
              epsilonClosures[nfa.states[i]] = computeEpsilonClosure(nfa, nfa.states[i])
    /\ pc = "dfa1" => dfa = DFA_fromPrenex(prenex, <<>>).dfa

----------------------------------------------------------------------------
(* Parser.toPrenex on a regex, then the arity-driven parse of its result *)

MaxRegexLen == 4

Postfix == {<<"*">>, <<"+">>, <<"?">>}

\* the syntactically valid regexes of exactly n characters over a and b:
\*   regex ::= term | regex "|" term        term ::= factor | term factor
\*   factor ::= atom | factor postfix       atom ::= a | b | "(" regex ")"
RECURSIVE RegexesOfLen(_), TermsOfLen(_), FactorsOfLen(_), AtomsOfLen(_)
RegexesOfLen(n) ==
    TermsOfLen(n)
    \cup UNION {{r \o <<"|">> \o t : r \in RegexesOfLen(i), t \in TermsOfLen(n - 1 - i)} :
                  i \in 1..(n - 2)}

TermsOfLen(n) ==
    FactorsOfLen(n)
    \cup UNION {{t \o f : t \in TermsOfLen(i), f \in FactorsOfLen(n - i)} : i \in 1..(n - 1)}

FactorsOfLen(n) ==
    AtomsOfLen(n)
    \cup (IF n >= 2 THEN {f \o p : f \in FactorsOfLen(n - 1), p \in Postfix} ELSE {})

AtomsOfLen(n) ==
    IF n = 1 THEN {<<"a">>, <<"b">>}
    ELSE IF n >= 3 THEN {<<"(">> \o r \o <<")">> : r \in RegexesOfLen(n - 2)}
    ELSE {}

ValidRegexes == UNION {RegexesOfLen(n) : n \in 1..MaxRegexLen}

InitParser ==
    /\ Loaded
    /\ pc = "regex"
    /\ regex \in ValidRegexes
    /\ prenex = <<>>
    /\ tree = NoAST
    /\ configurations = <<>>
    /\ dfas = <<>>
    /\ counter = 0
    /\ word = <<>>
    /\ start_idx = 0
    /\ output = <<>>
    /\ ret = NoRet
    /\ nfa = NoNFA
    /\ dfa = NoDFA
    /\ accepted = FALSE
    /\ expr = NoExpr
    /\ prenex2 = <<>>

\* prenex = Parser.toPrenex(regex)
ToPrenex ==
    /\ pc = "regex"
    /\ prenex' = toPrenex(regex)
    /\ pc' = IF prenex' = Raised THEN "raised" ELSE "prenex"
    /\ UNCHANGED <<curr_state_idx, visited, epsilonClosures, configurations, dfas,
                   counter, word, start_idx, output, ret, regex, nfa, dfa, tree,
                   accepted, expr, prenex2>>

\* ast = AST(prenex); ast.fromPrenex()
ParsePrenex ==
    /\ pc = "prenex"
    /\ tree' = AST(prenex)
    /\ pc' = "parsed"
    /\ UNCHANGED <<curr_state_idx, visited, epsilonClosures, configurations, dfas,
                   counter, word, start_idx, output, ret, regex, prenex, nfa, dfa,
                   accepted, expr, prenex2>>

NextParser ==
    \/ ToPrenex
    \/ ParsePrenex

SpecParser == InitParser /\ [][NextParser]_vars

\* C10: for every syntactically valid regex, stacked postfix operators included,
\* toPrenex returns a string with every operator keyword before its operands:
\* the arity-driven parse finds every operand and consumes every token
C10_WellFormedPrenex ==
    /\ pc # "raised"
    /\ pc = "parsed" =>
          /\ ~tree.raised
          /\ tree.consumed = Len(tree.tokens_list)

====
